---- MODULE Spec2Model ----
(***************************************************************************)
(* Model of the live voice session of src/App.tsx: connectToJarvis and its *)
(* onopen / onmessage / onclose / onerror callbacks, handleToolCall,       *)
(* stopAllAudio and disconnect, run on one cooperative event loop.  Every  *)
(* action is one task of the loop: the code between two suspension points. *)
(* Time is counted in units of 0.1 s of the audio clocks.                  *)
(***************************************************************************)
EXTENDS Integers, Sequences, FiniteSets, TLC

\* ------------------------------------------------------------------ bounds
\* Spec: one connect attempt under the full inbound traffic
MaxConnects == 1
MaxMsgs == 2
MaxTime == 2
MaxFrames == 1
\* SpecReconnect: several connect attempts under audio and interruptions
MaxAttempts == 2
MaxAudioMsgs == 2
MaxLateTime == 1
\* SpecScenario: how long the session may sit idle before the first frame
MaxIdle == 2
\* SpecCapture: capture windows delivered in all
MaxWindows == 3
\* SpecCodec: the longest sample buffer, and how many values a sample can
\* take between two neighbouring 16-bit levels
MaxBuffer == 2
SubSteps == 4

\* --------------------------------------------------------------- constants
Tol == 1
NoRef == 0
NoAudio == -1
Durations == {0, 1}

ToolNames ==
  {"make_call", "end_call", "send_message", "set_reminder",
   "check_notifications", "screen_control", "display_weather", "generate_image"}

\* the inbound wire messages (LiveServerMessage) the remote side is made to
\* send.  A call carries its name and the shape of its args: "full" (every
\* declared argument), "required" (the required ones), "empty" (args = {}).
Call(name, args) == [name |-> name, args |-> args]

Msg(interrupted, calls, grounding, audio) ==
  [interrupted |-> interrupted, toolCall |-> calls, grounding |-> grounding,
   audio |-> audio]

Messages ==
  { Msg(FALSE, <<>>, FALSE, d) : d \in Durations }
  \cup
  { Msg(TRUE, <<Call("set_reminder", "full")>>, TRUE, 1),
    Msg(FALSE, <<Call("make_call", "empty"), Call("end_call", "empty")>>, FALSE, NoAudio),
    Msg(FALSE, <<Call("set_reminder", "required"), Call("unknown_tool", "empty")>>,
        TRUE, NoAudio),
    Msg(FALSE, <<Call("generate_image", "full"), Call("make_call", "full")>>,
        FALSE, 1),
    Msg(FALSE, <<Call("generate_image", "required")>>, FALSE, NoAudio) }

\* ------------------------------------------------------------------- state
VARIABLES
  connected, isSpeaking, logs, reminders, phoneState, weatherState,
  voiceGeneratedImage, searchResults,
  audioContextRef, inputAudioContextRef, analyserRef, streamRef,
  audioSourcesRef, clientRef, sessionRef, nextStartTimeRef,
  now, conns, sources, handlers, toolResponses, outbound,
  toolCalls, schedule, marks, codec

uiVars == <<connected, isSpeaking, logs, reminders, phoneState, weatherState,
            voiceGeneratedImage, searchResults>>
refVars == <<audioContextRef, inputAudioContextRef, analyserRef, streamRef,
             audioSourcesRef, clientRef, sessionRef, nextStartTimeRef>>
envVars == <<now, conns, sources, handlers, toolResponses, outbound>>
histVars == <<toolCalls, schedule, marks>>
sessionVars == <<uiVars, refVars, envVars, histVars>>
vars == <<sessionVars, codec>>

\* ----------------------------------------------------------------- helpers
Max(a, b) == IF a >= b THEN a ELSE b

Range(s) == { s[i] : i \in DOMAIN s }

\* AudioContext.currentTime of the output context created by connect c:
\* it starts at 0 at construction and freezes when the context is closed
CurrentTime(c) ==
  IF conns[c].closedAt >= 0 THEN conns[c].closedAt - conns[c].origin
  ELSE now - conns[c].origin

CtxClosed(c) == conns[c].closedAt >= 0

\* addLog: one more entry of the given type
AddLog(l, type) == [l EXCEPT ![type] = @ + 1]

Pending(c) == conns[c].pc \in {"getUserMedia", "handshake"}

Open(c) == conns[c].sess \in {"open", "failing"}

\* ----------------------------------------------------------- tool dispatch
Undefined == "undefined"

ArgValues ==
  [contactName |-> "Mom", messageBody |-> "hi", task |-> "buy milk",
   time |-> "9am", action |-> "scroll_down", location |-> "Delhi",
   temperature |-> "30C", condition |-> "Sunny", humidity |-> "40%",
   wind |-> "5km/h", prompt |-> "a cat"]

OptionalArgs == {"time", "humidity", "wind"}

\* args[key] for the three shapes of args a call is sent with
Arg(args, key) ==
  IF args = "full" \/ (args = "required" /\ key \notin OptionalArgs)
  THEN ArgValues[key] ELSE Undefined

\* the handler dereferences a missing value: args.contactName.toLowerCase()
\* on args = {}, or any args.x when the call carries no args at all
ToolThrows(fc) ==
  \/ fc.name = "make_call" /\ Arg(fc.args, "contactName") = Undefined
  \/ fc.name \in {"send_message", "set_reminder", "screen_control",
                  "display_weather"} /\ fc.args = "absent"

\* the result string each case of the switch leaves in `result` when it runs
\* to its break without suspending (generate_image only does so when reading
\* args.prompt throws inside its try; an undeclared name matches no case and
\* keeps the initial "Done")
ToolResult(fc) ==
  CASE fc.name = "make_call" -> "Call Initiated"
    [] fc.name = "end_call" -> "Call disconnected"
    [] fc.name = "send_message" -> "Message delivered"
    [] fc.name = "set_reminder" -> <<"Memory stored", Arg(fc.args, "task")>>
    [] fc.name = "check_notifications" -> "Found notifications"
    [] fc.name = "screen_control" -> "Screen action executed"
    [] fc.name = "display_weather" -> "Weather data displayed"
    [] fc.name = "generate_image" -> "Image generation failed"
    [] OTHER -> "Done"

\* a reminder that keeps the time as sent, without the default
ReminderAsSent(args) ==
  [task |-> Arg(args, "task"), time |-> Arg(args, "time"), completed |-> FALSE]

\* line 227: the reminder built from the args (args.time || 'Today')
ReminderOf(args) ==
  [task |-> Arg(args, "task"),
   time |-> IF Arg(args, "time") = Undefined THEN "Today" ELSE Arg(args, "time"),
   completed |-> FALSE]

\* the side effect of each such case on the UI-owned state E
ToolEffect(fc, E) ==
  CASE fc.name = "make_call" ->
         [E EXCEPT !.phoneState =
             [isInCall |-> TRUE, activeContact |-> Arg(fc.args, "contactName")]]
    [] fc.name = "end_call" ->
         [E EXCEPT !.phoneState = [isInCall |-> FALSE, activeContact |-> "null"]]
    [] fc.name = "send_message" ->
         [E EXCEPT !.logs = AddLog(@, "system")]
    [] fc.name = "set_reminder" ->
         [E EXCEPT !.reminders = Append(@, ReminderOf(fc.args))]
    [] fc.name = "display_weather" ->
         [E EXCEPT !.weatherState = Arg(fc.args, "location")]
    [] fc.name = "generate_image" ->
         [E EXCEPT !.logs = AddLog(@, "error")]
    [] OTHER -> E

\* a response put in front of the ones already sent
SendToolResponseFirst(id, name, result, E) ==
  IF sessionRef # NoRef
  THEN [E EXCEPT !.toolResponses =
          <<[id |-> id, name |-> name, result |-> result, via |-> sessionRef,
             delivered |-> Open(sessionRef)]>> \o @]
  ELSE E

\* lines 263-267: the response goes to whatever session sessionRef holds now
SendToolResponse(id, name, result, E) ==
  IF sessionRef # NoRef
  THEN [E EXCEPT !.toolResponses = Append(@,
          [id |-> id, name |-> name, result |-> result, via |-> sessionRef,
           delivered |-> Open(sessionRef)])]
  ELSE E

CallId(m, i) == m * 10 + i

MarkCall(E, id, status) ==
  [E EXCEPT !.toolCalls =
     [k \in DOMAIN @ |-> IF @[k].id = id THEN [@[k] EXCEPT !.status = status]
                         ELSE @[k]]]

\* for (const fc of functionCalls) await handleToolCall(fc), from call i on,
\* up to the first real suspension (generateContent) or exception
RECURSIVE RunBatch(_, _, _, _)
RunBatch(m, calls, i, E) ==
  IF i > Len(calls) THEN [E |-> E, out |-> "end", idx |-> i]
  ELSE
    LET fc == calls[i]
        E1 == [E EXCEPT !.logs = AddLog(@, "action")]
    IN IF ToolThrows(fc)
       THEN [E |-> MarkCall(E1, CallId(m, i), "threw"), out |-> "threw", idx |-> i]
       ELSE IF fc.name = "generate_image" /\ clientRef # NoRef /\ fc.args # "absent"
       THEN [E |-> MarkCall(E1, CallId(m, i), "awaiting"), out |-> "await", idx |-> i]
       ELSE RunBatch(m, calls, i + 1,
              MarkCall(SendToolResponse(CallId(m, i), fc.name, ToolResult(fc),
                                        ToolEffect(fc, E1)),
                       CallId(m, i), "returned"))

Env ==
  [logs |-> logs, reminders |-> reminders, phoneState |-> phoneState,
   weatherState |-> weatherState, voiceGeneratedImage |-> voiceGeneratedImage,
   toolResponses |-> toolResponses, toolCalls |-> toolCalls]

Done == [pc |-> "done"]

\* audio that is played only while no tool call of another message is pending
PlayableAudioWhenIdle(msg) ==
  /\ msg.audio # NoAudio /\ audioContextRef # NoRef /\ analyserRef # NoRef
  /\ \A k \in DOMAIN handlers : handlers[k].pc # "tool"

\* lines 372-373: the message carries audio and the output chain exists
PlayableAudio(msg) ==
  msg.audio # NoAudio /\ audioContextRef # NoRef /\ analyserRef # NoRef

\* onmessage from the tool loop on: lines 364-375, up to the next suspension
HandlerRun(m, s, msg, i, E, hs) ==
  LET r == RunBatch(m, msg.toolCall, i, E) IN
  /\ logs' = r.E.logs
  /\ reminders' = r.E.reminders
  /\ phoneState' = r.E.phoneState
  /\ weatherState' = r.E.weatherState
  /\ voiceGeneratedImage' = r.E.voiceGeneratedImage
  /\ toolResponses' = r.E.toolResponses
  /\ toolCalls' = r.E.toolCalls
  /\ IF r.out = "await"
     THEN /\ handlers' = [hs EXCEPT ![m] =
                 [pc |-> "tool", sess |-> s, msg |-> msg, idx |-> r.idx]]
          /\ UNCHANGED <<isSpeaking, searchResults>>
     ELSE IF r.out = "threw"
     THEN /\ handlers' = [hs EXCEPT ![m] = Done]
          /\ UNCHANGED <<isSpeaking, searchResults>>
     ELSE /\ searchResults' = IF msg.grounding THEN TRUE ELSE searchResults
          /\ IF PlayableAudio(msg)
             THEN /\ isSpeaking' = TRUE
                  /\ handlers' = [hs EXCEPT ![m] =
                         [pc |-> "decode", sess |-> s, msg |-> msg, idx |-> r.idx]]
             ELSE /\ handlers' = [hs EXCEPT ![m] = Done]
                  /\ UNCHANGED isSpeaking

\* ------------------------------------------------------ playback scheduler
\* a start that ignores what is scheduled already
EnqueueStartNow(clock, marker) == clock

\* a start that ignores the clock
EnqueueStartAtMarker(clock, marker) == marker

\* line 380
EnqueueStart(clock, marker) == Max(clock, marker)

\* a marker that forgets the length of the buffer just scheduled
EnqueueMarkerNoAdvance(start, duration) == start

\* a marker that takes the length of the buffer for its end
EnqueueMarkerLength(start, duration) == duration

\* a marker that moves on by one unit at least
EnqueueMarkerMinStep(start, duration) == start + Max(duration, 1)

\* line 382
EnqueueMarker(start, duration) == start + duration

\* a stop loop that skips the first source of the list
StopSourcesButFirst(srcs, ref) ==
  [i \in DOMAIN srcs |->
     IF i \in Range(ref) /\ srcs[i].st = "scheduled" /\ i # ref[1]
     THEN [srcs[i] EXCEPT !.st = "stopped"] ELSE srcs[i]]

\* lines 195-197: stop() on every source the ref holds
StopSources(srcs, ref) ==
  [i \in DOMAIN srcs |->
     IF i \in Range(ref) /\ srcs[i].st = "scheduled"
     THEN [srcs[i] EXCEPT !.st = "stopped"] ELSE srcs[i]]

\* line 198
ClearedSources(ref) == <<>>

\* a stop that leaves the marker where it was
StopMarkerKept == nextStartTimeRef

\* lines 199-201
StopMarker ==
  IF audioContextRef # NoRef THEN CurrentTime(audioContextRef)
  ELSE nextStartTimeRef

\* stopAllAudio, lines 194-203
StopAllAudio ==
  /\ sources' = StopSources(sources, audioSourcesRef)
  /\ audioSourcesRef' = ClearedSources(audioSourcesRef)
  /\ nextStartTimeRef' = StopMarker
  /\ isSpeaking' = FALSE
  /\ schedule' = <<>>

\* ------------------------------------------------------------------- Init
InitSession ==
  /\ connected = FALSE
  /\ isSpeaking = FALSE
  /\ logs = [t \in {"info", "action", "error", "system"} |-> 0]
  /\ reminders = <<>>
  /\ phoneState = [isInCall |-> FALSE, activeContact |-> "null"]
  /\ weatherState = "null"
  /\ voiceGeneratedImage = "null"
  /\ searchResults = FALSE
  /\ audioContextRef = NoRef
  /\ inputAudioContextRef = NoRef
  /\ analyserRef = NoRef
  /\ streamRef = NoRef
  /\ audioSourcesRef = <<>>
  /\ clientRef = NoRef
  /\ sessionRef = NoRef
  /\ nextStartTimeRef = 0
  /\ now = 0
  /\ conns = <<>>
  /\ sources = <<>>
  /\ handlers = <<>>
  /\ toolResponses = <<>>
  /\ outbound = <<>>
  /\ toolCalls = <<>>
  /\ schedule = <<>>
  /\ marks = [interruptMsg |-> 0, afterInterrupt |-> FALSE, pendingAtDisc |-> {},
              procsAtDisc |-> {}, lateFrame |-> FALSE]

\* no buffer is on its way through the codec
NoFrame == [pc |-> "idle", samples |-> <<>>, data |-> <<>>, bytes |-> <<>>,
            out |-> <<>>]

Init == InitSession /\ codec = NoFrame

\* ------------------------------------------------------------- connecting
\* the Connect button (rendered while !connected) runs connectToJarvis up to
\* its first await, getUserMedia
ClickConnect ==
  /\ ~connected
  /\ logs' = AddLog(logs, "system")
  /\ conns' = Append(conns,
        [pc |-> "getUserMedia", sess |-> "none", origin |-> 0, closedAt |-> -1,
         inClosed |-> FALSE, streamStopped |-> FALSE, proc |-> NoRef])
  /\ UNCHANGED <<connected, isSpeaking, reminders, phoneState, weatherState,
                 voiceGeneratedImage, searchResults, refVars, now, sources,
                 handlers, toolResponses, outbound, toolCalls, schedule, marks>>
  /\ UNCHANGED codec

\* getUserMedia resolves: lines 328-338, up to the await of live.connect
GetUserMediaOk(c) ==
  /\ conns[c].pc = "getUserMedia"
  /\ streamRef' = c
  /\ inputAudioContextRef' = c
  /\ audioContextRef' = c
  /\ analyserRef' = c
  /\ clientRef' = c
  /\ conns' = [conns EXCEPT ![c].pc = "handshake", ![c].origin = now]
  /\ UNCHANGED <<uiVars, audioSourcesRef, sessionRef, nextStartTimeRef, now,
                 sources, handlers, toolResponses, outbound, toolCalls,
                 schedule, marks>>
  /\ UNCHANGED codec

\* a rejection that is swallowed without a log entry
GetUserMediaFailSilent(c) ==
  /\ conns[c].pc = "getUserMedia"
  /\ conns' = [conns EXCEPT ![c].pc = "failed"]
  /\ UNCHANGED <<uiVars, refVars, now, sources, handlers, toolResponses,
                 outbound, toolCalls, schedule, marks>>
  /\ UNCHANGED codec

\* getUserMedia rejects: the catch of line 394
GetUserMediaFail(c) ==
  /\ conns[c].pc = "getUserMedia"
  /\ conns' = [conns EXCEPT ![c].pc = "failed"]
  /\ logs' = AddLog(logs, "error")
  /\ UNCHANGED <<connected, isSpeaking, reminders, phoneState, weatherState,
                 voiceGeneratedImage, searchResults, refVars, now, sources,
                 handlers, toolResponses, outbound, toolCalls, schedule, marks>>
  /\ UNCHANGED codec

\* the handshake succeeds: onopen (lines 349-361), then line 393.  Creating
\* the capture nodes on a context that was closed meanwhile may throw; the
\* connect promise then never resolves and sessionRef is not assigned.
HandshakeOpen(c) ==
  /\ conns[c].pc = "handshake"
  /\ connected' = TRUE
  /\ logs' = AddLog(logs, "info")
  /\ \E throws \in BOOLEAN :
       /\ throws => inputAudioContextRef # NoRef /\ conns[inputAudioContextRef].inClosed
       /\ IF throws
          THEN /\ conns' = [conns EXCEPT ![c].pc = "stuck", ![c].sess = "stalled"]
               /\ UNCHANGED sessionRef
          ELSE /\ conns' = [conns EXCEPT ![c].pc = "done", ![c].sess = "open",
                                         ![c].proc = inputAudioContextRef]
               /\ sessionRef' = c
  /\ UNCHANGED <<isSpeaking, reminders, phoneState, weatherState,
                 voiceGeneratedImage, searchResults, audioContextRef,
                 inputAudioContextRef, analyserRef, streamRef, audioSourcesRef,
                 clientRef, nextStartTimeRef, now, sources, handlers,
                 toolResponses, outbound, toolCalls, schedule, marks>>
  /\ UNCHANGED codec

\* live.connect rejects: the catch of line 394
HandshakeFail(c) ==
  /\ conns[c].pc = "handshake"
  /\ conns' = [conns EXCEPT ![c].pc = "failed"]
  /\ logs' = AddLog(logs, "error")
  /\ UNCHANGED <<connected, isSpeaking, reminders, phoneState, weatherState,
                 voiceGeneratedImage, searchResults, refVars, now, sources,
                 handlers, toolResponses, outbound, toolCalls, schedule, marks>>
  /\ UNCHANGED codec

\* ---------------------------------------------------------------- capture
\* the number of the capture window the processor of c delivers next
Window(c) == Cardinality({ k \in DOMAIN outbound : outbound[k].sess = c }) + 1

\* a processor that is wired up as soon as the microphone stream is there
CaptureFrameEarly(c) ==
  /\ conns[c].proc # NoRef \/ conns[c].pc = "handshake"
  /\ ~conns[IF conns[c].proc # NoRef THEN conns[c].proc ELSE c].inClosed
  /\ outbound' = Append(outbound,
        [sess |-> c, win |-> Window(c), delivered |-> Open(c)])
  /\ marks' = [marks EXCEPT !.lateFrame =
                  @ \/ (c \in marks.procsAtDisc /\ Open(c))]
  /\ UNCHANGED <<uiVars, refVars, now, conns, sources, handlers, toolResponses,
                 toolCalls, schedule, codec>>

\* processor.onaudioprocess, lines 355-358: fires while its input context
\* runs; a frame sent on a session that is no longer open is discarded
CaptureFrame(c) ==
  /\ conns[c].proc # NoRef
  /\ ~conns[conns[c].proc].inClosed
  /\ outbound' = Append(outbound,
        [sess |-> c, win |-> Window(c), delivered |-> Open(c)])
  /\ marks' = [marks EXCEPT !.lateFrame =
                  @ \/ (c \in marks.procsAtDisc /\ Open(c))]
  /\ UNCHANGED <<uiVars, refVars, now, conns, sources, handlers, toolResponses,
                 toolCalls, schedule>>
  /\ UNCHANGED codec

\* ---------------------------------------------------------------- inbound
NewCalls(m, s, msg, status) ==
  [i \in 1..Len(msg.toolCall) |->
     [id |-> CallId(m, i), name |-> msg.toolCall[i].name, sess |-> s,
      msg |-> m, status |-> status]]

\* a message that counts as an interrupt only when it carries nothing else
InterruptedAlone(msg) ==
  msg.interrupted /\ msg.toolCall = <<>> /\ ~msg.grounding /\ msg.audio = NoAudio

\* line 363: msg.serverContent?.interrupted
Interrupted(msg) == msg.interrupted

\* onmessage, lines 362-375: up to the first suspension of the handler
OnMessage(s, msg) ==
  /\ conns[s].sess = "open"
  /\ LET m == Len(handlers) + 1 IN
     IF Interrupted(msg)
     THEN /\ StopAllAudio
          /\ handlers' = Append(handlers, Done)
          /\ toolCalls' = toolCalls \o NewCalls(m, s, msg, "dropped")
          /\ marks' = [marks EXCEPT !.interruptMsg = m, !.afterInterrupt = TRUE]
          /\ UNCHANGED <<connected, logs, reminders, phoneState, weatherState,
                         voiceGeneratedImage, searchResults, audioContextRef,
                         inputAudioContextRef, analyserRef, streamRef, clientRef,
                         sessionRef, now, conns, toolResponses, outbound>>
     ELSE /\ HandlerRun(m, s, msg, 1,
                [Env EXCEPT !.toolCalls = @ \o NewCalls(m, s, msg, "received")],
                Append(handlers, Done))
          /\ UNCHANGED <<connected, refVars, now, conns, sources, outbound,
                         schedule, marks>>
  /\ UNCHANGED codec

\* a result that reports success whatever came back
ImageResultAlwaysOk(outcome) == "Image generated"

\* what generateContent brought back, lines 247-258
ImageResult(outcome) ==
  CASE outcome = "image" -> "Image generated"
    [] outcome = "nodata" -> "Image generation failed to return data"
    [] OTHER -> "Image generation failed"

ImageEffect(outcome, E) ==
  CASE outcome = "image" ->
         [E EXCEPT !.voiceGeneratedImage = "image", !.logs = AddLog(@, "info")]
    [] outcome = "nodata" -> E
    [] OTHER -> [E EXCEPT !.logs = AddLog(@, "error")]

\* the generateContent call of a generate_image handler settles: the rest of
\* handleToolCall (lines 247-267), then the rest of onmessage
ToolAwaitDone(m, outcome) ==
  /\ handlers[m].pc = "tool"
  /\ LET h == handlers[m]
         id == CallId(m, h.idx)
         E2 == MarkCall(SendToolResponse(id, h.msg.toolCall[h.idx].name,
                                         ImageResult(outcome),
                                         ImageEffect(outcome, Env)),
                        id, "returned")
     IN HandlerRun(m, h.sess, h.msg, h.idx + 1, E2, handlers)
  /\ UNCHANGED <<connected, refVars, now, conns, sources, outbound, schedule, marks>>
  /\ UNCHANGED codec

\* decodeAudioData resolves: lines 376-386.  On a closed output context the
\* node creation either throws (the handler ends there) or yields a source
\* that never sounds.
DecodeDone(m, throws) ==
  /\ handlers[m].pc = "decode"
  /\ throws => CtxClosed(audioContextRef)
  /\ handlers' = [handlers EXCEPT ![m] = Done]
  /\ IF throws
     THEN UNCHANGED <<audioSourcesRef, nextStartTimeRef, sources, schedule, marks>>
     ELSE LET clock == CurrentTime(audioContextRef)
              startTime == EnqueueStart(clock, nextStartTimeRef)
              duration == handlers[m].msg.audio
          IN /\ sources' = Append(sources,
                    [ctx |-> audioContextRef, start |-> startTime,
                     dur |-> duration, st |-> "scheduled", msg |-> m,
                     clock |-> clock, afterInt |-> marks.afterInterrupt])
             /\ audioSourcesRef' = Append(audioSourcesRef, Len(sources) + 1)
             /\ nextStartTimeRef' = EnqueueMarker(startTime, duration)
             /\ schedule' = Append(schedule, [start |-> startTime, dur |-> duration])
             /\ marks' = [marks EXCEPT !.afterInterrupt = FALSE]
  /\ UNCHANGED <<uiVars, audioContextRef, inputAudioContextRef, analyserRef,
                 streamRef, clientRef, sessionRef, now, conns, toolResponses,
                 outbound, toolCalls>>
  /\ UNCHANGED codec

\* the buffer has played to its end on a running context, or stop() was called
Finished(i) ==
  \/ sources[i].st = "stopped"
  \/ /\ sources[i].st = "scheduled"
     /\ ~CtxClosed(sources[i].ctx)
     /\ CurrentTime(sources[i].ctx) >= sources[i].start + sources[i].dur

\* line 385
CaughtUp == audioContextRef # NoRef
            /\ CurrentTime(audioContextRef) >= nextStartTimeRef - Tol

\* source.onended, lines 383-386
SourceEnded(i) ==
  /\ Finished(i)
  /\ sources' = [sources EXCEPT ![i].st = "ended"]
  /\ audioSourcesRef' = SelectSeq(audioSourcesRef, LAMBDA x : x # i)
  /\ isSpeaking' = IF CaughtUp THEN FALSE ELSE isSpeaking
  /\ UNCHANGED <<connected, logs, reminders, phoneState, weatherState,
                 voiceGeneratedImage, searchResults, audioContextRef,
                 inputAudioContextRef, analyserRef, streamRef, clientRef,
                 sessionRef, nextStartTimeRef, now, conns, handlers,
                 toolResponses, outbound, toolCalls, schedule, marks>>
  /\ UNCHANGED codec

\* the audio clocks advance
Tick ==
  /\ now' = now + 1
  /\ UNCHANGED <<uiVars, refVars, conns, sources, handlers, toolResponses,
                 outbound, toolCalls, schedule, marks>>
  /\ UNCHANGED codec

\* ------------------------------------------------------ transport, teardown
\* onerror, line 390
OnError(s) ==
  /\ conns[s].sess = "open"
  /\ conns' = [conns EXCEPT ![s].sess = "failing"]
  /\ logs' = AddLog(logs, "error")
  /\ UNCHANGED <<connected, isSpeaking, reminders, phoneState, weatherState,
                 voiceGeneratedImage, searchResults, refVars, now, sources,
                 handlers, toolResponses, outbound, toolCalls, schedule, marks>>
  /\ UNCHANGED codec

\* onclose, line 389: the transport dropped, or the close asked for by
\* disconnect has completed
OnClose(s) ==
  /\ conns[s].sess \in {"open", "failing", "closing", "stalled"}
  /\ conns' = [conns EXCEPT ![s].sess = "closed"]
  /\ connected' = FALSE
  /\ StopAllAudio
  /\ searchResults' = FALSE
  /\ UNCHANGED <<logs, reminders, phoneState, weatherState, voiceGeneratedImage,
                 audioContextRef, inputAudioContextRef, analyserRef, streamRef,
                 clientRef, sessionRef, now, handlers, toolResponses, outbound,
                 toolCalls, marks>>
  /\ UNCHANGED codec

\* lines 399-403: each ?. call acts on what its ref holds now
Release(cs) ==
  [c \in DOMAIN cs |->
     [cs[c] EXCEPT
        !.streamStopped = @ \/ c = streamRef,
        !.sess = IF c = sessionRef /\ @ \in {"open", "failing"} THEN "closing" ELSE @,
        !.closedAt = IF c = audioContextRef /\ @ < 0 THEN now ELSE @,
        !.inClosed = @ \/ c = inputAudioContextRef]]

\* the Disconnect button (rendered while connected) runs disconnect
ClickDisconnect ==
  /\ connected
  /\ StopAllAudio
  /\ conns' = Release(conns)
  /\ connected' = FALSE
  /\ searchResults' = FALSE
  /\ logs' = AddLog(logs, "system")
  /\ marks' = [marks EXCEPT
        !.pendingAtDisc = @ \cup { c \in DOMAIN conns : Pending(c) },
        !.procsAtDisc = { c \in DOMAIN conns : conns[c].proc # NoRef }]
  /\ UNCHANGED <<reminders, phoneState, weatherState, voiceGeneratedImage,
                 audioContextRef, inputAudioContextRef, analyserRef, streamRef,
                 clientRef, sessionRef, now, handlers, toolResponses, outbound,
                 toolCalls>>
  /\ UNCHANGED codec

\* ------------------------------------------------------------ specification
\* the steps of a pending connect attempt and of the live session
ConnectSteps ==
  \/ \E c \in DOMAIN conns : GetUserMediaOk(c)
  \/ \E c \in DOMAIN conns : GetUserMediaFail(c)
  \/ \E c \in DOMAIN conns : HandshakeOpen(c)
  \/ \E c \in DOMAIN conns : HandshakeFail(c)

PlaybackSteps ==
  \/ \E m \in DOMAIN handlers : \E t \in BOOLEAN : DecodeDone(m, t)
  \/ \E i \in DOMAIN sources : SourceEnded(i)

TransportSteps ==
  \/ \E s \in DOMAIN conns : OnError(s)
  \/ \E s \in DOMAIN conns : OnClose(s)
  \/ ClickDisconnect

Next ==
  \/ Len(conns) < MaxConnects /\ ClickConnect
  \/ ConnectSteps
  \/ Len(outbound) < MaxFrames /\ \E c \in DOMAIN conns : CaptureFrame(c)
  \/ Len(handlers) < MaxMsgs
       /\ \E s \in DOMAIN conns : \E msg \in Messages : OnMessage(s, msg)
  \/ \E m \in DOMAIN handlers : \E o \in {"image", "nodata", "reject"} :
        ToolAwaitDone(m, o)
  \/ PlaybackSteps
  \/ now < MaxTime /\ Tick
  \/ TransportSteps

Spec == Init /\ [][Next]_vars

AudioMessages == { msg \in Messages : msg.audio = 1 /\ Len(msg.toolCall) < 2 }

NextReconnect ==
  \/ Len(conns) < MaxAttempts /\ ClickConnect
  \/ ConnectSteps
  \/ Len(outbound) < MaxFrames /\ \E c \in DOMAIN conns : CaptureFrame(c)
  \/ Len(handlers) < MaxAudioMsgs
       /\ \E s \in DOMAIN conns : \E msg \in AudioMessages : OnMessage(s, msg)
  \/ PlaybackSteps
  \/ now < MaxLateTime /\ Tick
  \/ TransportSteps

SpecReconnect == Init /\ [][NextReconnect]_vars

\* capture alone: connect attempts, their capture callbacks and the teardown
NextCapture ==
  \/ Len(conns) < MaxAttempts /\ ClickConnect
  \/ ConnectSteps
  \/ Len(outbound) < MaxWindows /\ \E c \in DOMAIN conns : CaptureFrame(c)
  \/ TransportSteps

SpecCapture == Init /\ [][NextCapture]_vars

\* the scenario of three inbound frames of 1.0 s, 0.5 s and 2.0 s on one
\* session: they arrive and are decoded in order at one clock time, and
\* each ended event is delivered before the clock moves on
ScenarioFrames == <<10, 5, 20>>

ScenarioLength == ScenarioFrames[1] + ScenarioFrames[2] + ScenarioFrames[3]

ScenarioFrame == Msg(FALSE, <<>>, FALSE, ScenarioFrames[Len(handlers) + 1])

ScenarioTick ==
  /\ \/ handlers = <<>> /\ now < MaxIdle
     \/ /\ Len(sources) = Len(ScenarioFrames)
        /\ \A i \in DOMAIN sources : ~Finished(i)
        /\ CurrentTime(audioContextRef) <= sources[1].clock + ScenarioLength
  /\ Tick

NextScenario ==
  \/ conns = <<>> /\ ClickConnect
  \/ \E c \in DOMAIN conns : GetUserMediaOk(c)
  \/ \E c \in DOMAIN conns : HandshakeOpen(c)
  \/ Len(handlers) < Len(ScenarioFrames)
       /\ \E s \in DOMAIN conns : OnMessage(s, ScenarioFrame)
  \/ \E m \in DOMAIN handlers :
        (\A k \in 1..(m - 1) : handlers[k] = Done) /\ DecodeDone(m, FALSE)
  \/ \E i \in DOMAIN sources : SourceEnded(i)
  \/ ScenarioTick

SpecScenario == Init /\ [][NextScenario]_vars

\* ------------------------------------------------------------ frame codec
\* utils/audioUtils is not part of the sources at hand: createPcmBlob and
\* decodeAudioData follow the codec contract of the design document (16-bit
\* signed little-endian PCM, clamped, base64 on the wire).  A sample is a
\* whole number of parts, SubSteps * FullScale of which make 1.0.
FullScale == 32768

One == SubSteps * FullScale

Pad == 64

\* a storing of the scaled sample that does not clamp it
ClampNot(v) == v

\* out-of-range values are clamped rather than wrapped
Clamp(v) ==
  IF v > FullScale - 1 THEN FullScale - 1
  ELSE IF v < -FullScale THEN -FullScale ELSE v

\* the 16-bit level of a sample: scaled by FullScale, cut towards zero
Quantize(x) ==
  Clamp(IF x >= 0 THEN x \div SubSteps ELSE -((-x) \div SubSteps))

\* the two bytes of a level, low byte first
Int16Bytes(v) ==
  LET w == IF v < 0 THEN v + 2 * FullScale ELSE v IN <<w % 256, (w \div 256) % 256>>

RECURSIVE PcmBytes(_)
PcmBytes(samples) ==
  IF samples = <<>> THEN <<>>
  ELSE Int16Bytes(Quantize(Head(samples))) \o PcmBytes(Tail(samples))

\* base64: three bytes make four digits of six bits, Pad fills the last group
RECURSIVE Btoa(_)
Btoa(b) ==
  IF b = <<>> THEN <<>>
  ELSE IF Len(b) = 1
  THEN <<b[1] \div 4, (b[1] % 4) * 16, Pad, Pad>>
  ELSE IF Len(b) = 2
  THEN <<b[1] \div 4, (b[1] % 4) * 16 + b[2] \div 16, (b[2] % 16) * 4, Pad>>
  ELSE <<b[1] \div 4, (b[1] % 4) * 16 + b[2] \div 16,
         (b[2] % 16) * 4 + b[3] \div 64, b[3] % 64>>
       \o Btoa(SubSeq(b, 4, Len(b)))

\* createPcmBlob(samples).data, called at line 356
createPcmBlob(samples) == Btoa(PcmBytes(samples))

\* a conversion of the decoded text that keeps seven bits of each char code
WireBytesAscii(data) ==
  LET RECURSIVE Low(_)
      Low(s) ==
        IF s = <<>> THEN <<>>
        ELSE LET q == SubSeq(s, 1, 4)
                 b1 == (q[1] * 4 + q[2] \div 16) % 128
                 b2 == ((q[2] % 16) * 16 + q[3] \div 4) % 128
                 b3 == ((q[3] % 4) * 64 + q[4]) % 128
             IN (IF q[3] = Pad THEN <<b1>>
                 ELSE IF q[4] = Pad THEN <<b1, b2>> ELSE <<b1, b2, b3>>)
                \o Low(SubSeq(s, 5, Len(s)))
  IN Low(data)

\* line 375: new Uint8Array(atob(audioData).split('').map(c => c.charCodeAt(0)))
WireBytes(data) ==
  LET RECURSIVE Atob(_)
      Atob(s) ==
        IF s = <<>> THEN <<>>
        ELSE LET q == SubSeq(s, 1, 4)
                 b1 == q[1] * 4 + q[2] \div 16
                 b2 == (q[2] % 16) * 16 + q[3] \div 4
                 b3 == (q[3] % 4) * 64 + q[4]
             IN (IF q[3] = Pad THEN <<b1>>
                 ELSE IF q[4] = Pad THEN <<b1, b2>> ELSE <<b1, b2, b3>>)
                \o Atob(SubSeq(s, 5, Len(s)))
  IN Atob(data)

\* decodeAudioData(bytes, ctx, 24000, 1), called at line 375: one sample per
\* two bytes, the level divided by FullScale
decodeAudioData(bytes) ==
  [i \in 1..(Len(bytes) \div 2) |->
     LET w == bytes[2 * i - 1] + 256 * bytes[2 * i]
     IN (IF w >= FullScale THEN w - 2 * FullScale ELSE w) * SubSteps]

\* sample values in [-1, 1]: the ends of the range, values next to them,
\* values on and off a 16-bit level, values around zero
Samples ==
  {-One, 1 - One, -(One \div 2) - 1, -SubSteps - 1, -1, 0, 1, SubSteps - 1,
   One \div 2 + 1, One - SubSteps, One - 1, One}

Buffers == UNION { [1..n -> Samples] : n \in 0..MaxBuffer }

InitCodec ==
  /\ InitSession
  /\ codec \in { [NoFrame EXCEPT !.pc = "raw", !.samples = b] : b \in Buffers }

\* a captured window is encoded for the wire
EncodeFrame ==
  /\ codec.pc = "raw"
  /\ codec' = [codec EXCEPT !.pc = "sent", !.data = createPcmBlob(codec.samples)]
  /\ UNCHANGED sessionVars

\* the payload of an inbound message is turned into bytes
ReceiveFrame ==
  /\ codec.pc = "sent"
  /\ codec' = [codec EXCEPT !.pc = "received", !.bytes = WireBytes(codec.data)]
  /\ UNCHANGED sessionVars

\* the bytes are decoded into a buffer of samples
DecodeFrame ==
  /\ codec.pc = "received"
  /\ codec' = [codec EXCEPT !.pc = "decoded", !.out = decodeAudioData(codec.bytes)]
  /\ UNCHANGED sessionVars

NextCodec == EncodeFrame \/ ReceiveFrame \/ DecodeFrame

SpecCodec == InitCodec /\ [][NextCodec]_vars

\* ------------------------------------------------------------------ claims
Active == { i \in DOMAIN sources : sources[i].st = "scheduled" }

Responses(id) == { r \in DOMAIN toolResponses : toolResponses[r].id = id }

Live(c) == Pending(c) \/ conns[c].sess \in {"open", "failing", "stalled"}

\* C1: slots enqueued with no interruption in between never overlap and never
\* go back in time: a later slot starts no earlier than an earlier slot ends.
C1_Gapless ==
  \A i, j \in DOMAIN schedule :
     i < j => schedule[j].start >= schedule[i].start + schedule[i].dur

\* two slots were enqueued back to back, the first of them with some length
C1_Witness ==
  /\ Len(schedule) >= 2
  /\ schedule[1].dur > 0
  /\ schedule[2].start = schedule[1].start + schedule[1].dur

\* C2: after an interrupt no audio received before it is scheduled or playing.
C2_NoOrphan ==
  \A i \in Active : sources[i].msg > marks.interruptMsg

\* C3: every tool call handed to handleToolCall, and every call of a batch
\* whose handler is over, has exactly one response with its id and name, sent
\* on the session the call came from.
C3_OneResponse ==
  \A k \in DOMAIN toolCalls :
     LET call == toolCalls[k] IN
     (call.status \in {"returned", "threw"}
        \/ (call.status = "received" /\ handlers[call.msg] = Done))
     => /\ Cardinality(Responses(call.id)) = 1
        /\ \A r \in Responses(call.id) :
              /\ toolResponses[r].name = call.name
              /\ toolResponses[r].via = call.sess

C5_StartsNow ==
  \A i \in DOMAIN sources : sources[i].afterInt => sources[i].start = sources[i].clock

\* C6: a call whose name is none of the eight declared tools is answered with
\* a result saying the tool was not recognized.
C6_UnknownTool ==
  \A r \in DOMAIN toolResponses :
     toolResponses[r].name \notin ToolNames
       => toolResponses[r].result = "Tool not recognized"

\* C7: when a connect attempt that was pending at a disconnect opens later,
\* connected stays false.
C7_DisconnectWins ==
  [][\A c \in marks.pendingAtDisc :
        conns[c].sess = "none" /\ conns'[c].sess # "none" => ~connected']_vars

\* C8: at most one connect attempt or session is alive at any time.
C8_OneSession ==
  Cardinality({ c \in DOMAIN conns : Live(c) }) <= 1

\* C9: when the transport of an open session closes, capture is stopped, all
\* slots are stopped and the session ends disconnected.
C9_CloseTearsDown ==
  [][\A s \in DOMAIN conns :
        conns[s].sess \in {"open", "failing"} /\ conns'[s].sess = "closed"
        => /\ conns'[s].proc # NoRef => conns'[conns'[s].proc].inClosed
           /\ audioSourcesRef' = <<>>
           /\ Active' = {}
           /\ ~connected']_vars

\* C10: when disconnect returns the active-slot set is empty, the channel is
\* closed, connected and isSpeaking are false, and no capture callback that
\* existed then delivers a frame afterwards.
C10_DisconnectFinal ==
  [][/\ ~marks'.lateFrame
     /\ connected /\ ~connected' /\ logs'["system"] # logs["system"]
        => /\ audioSourcesRef' = <<>>
           /\ sessionRef # NoRef => ~Open(sessionRef)'
           /\ ~connected' /\ ~isSpeaking']_vars

\* ---- second group of claims
Dispatched(call) == call.status \in {"awaiting", "returned", "threw"}

\* C11: the calls of one batch are dispatched one at a time in the order
\* received: when a call has been dispatched every earlier call of its batch
\* has its response sent already, and the responses of a batch are sent in
\* the order of its calls.
C11_InOrder ==
  \A a, b \in DOMAIN toolCalls :
     toolCalls[a].msg = toolCalls[b].msg /\ toolCalls[a].id < toolCalls[b].id
     => /\ Dispatched(toolCalls[b]) => Responses(toolCalls[a].id) # {}
        /\ Dispatched(toolCalls[a]) /\ Dispatched(toolCalls[b])
             => toolCalls[b].status # "awaiting" \/ toolCalls[a].status = "returned"
        /\ \A ra \in Responses(toolCalls[a].id) :
              \A rb \in Responses(toolCalls[b].id) : ra < rb

\* both calls of a batch are answered, the first of them after a suspension
C11_Witness ==
  \E a, b \in DOMAIN toolCalls :
     /\ toolCalls[a].msg = toolCalls[b].msg
     /\ toolCalls[b].id = toolCalls[a].id + 1
     /\ toolCalls[a].name = "generate_image"
     /\ Responses(toolCalls[a].id) # {}
     /\ Responses(toolCalls[b].id) # {}

\* C12: audio that arrives while a generate_image call is pending does not
\* wait for it: the handler of such a message goes straight to decoding, and
\* every handler that waits for a decode can finish it whatever tool call is
\* pending.
C12_AudioNotBlocked ==
  [][/\ \A m \in DOMAIN handlers :
          handlers[m].pc = "decode" => ENABLED DecodeDone(m, FALSE)
     /\ \A s \in DOMAIN conns : \A msg \in Messages :
          /\ \E m \in DOMAIN handlers : handlers[m].pc = "tool"
          /\ msg.toolCall = <<>> /\ ~msg.interrupted
          /\ OnMessage(s, msg)
          => handlers'[Len(handlers')].pc = "decode"]_vars

\* a frame received after the tool call is enqueued and the call still pends
C12_Witness ==
  \E m \in DOMAIN handlers : \E i \in DOMAIN sources :
     /\ handlers[m].pc = "tool"
     /\ sources[i].msg > m
     /\ sources[i].st = "scheduled"

ImageFailures == {"Image generation failed to return data", "Image generation failed"}

\* the pending generate_image call k settles in this step without an image
\* (the success branch alone logs an 'info' entry)
ImageFails(k) ==
  /\ toolCalls[k].status = "awaiting"
  /\ toolCalls'[k].status # "awaiting"
  /\ logs'["info"] = logs["info"]

\* C13: a generate_image call that throws or brings no data back is absorbed:
\* its response is sent with a result string that describes the failure, and
\* the session stays as it was, connected included.
C13_FailureAbsorbed ==
  [][\A k \in DOMAIN toolCalls :
        ImageFails(k)
        => /\ toolCalls'[k].status = "returned"
           /\ Cardinality(Responses(toolCalls[k].id)') = 1
           /\ \A r \in Responses(toolCalls[k].id)' :
                 toolResponses'[r].result \in ImageFailures
           /\ connected' = connected
           /\ conns' = conns
           /\ sessionRef' = sessionRef]_vars

\* a failed image call was answered on a session that is still connected, and
\* a message that came after the failure was handled
C13_Witness ==
  \E r \in DOMAIN toolResponses :
     /\ toolResponses[r].name = "generate_image"
     /\ toolResponses[r].result \in ImageFailures
     /\ connected
     /\ toolResponses[r].id = CallId(1, 1)
     /\ Len(toolResponses) > r
     /\ toolResponses[Len(toolResponses)].id = CallId(2, 1)

\* the connect attempt c loses its microphone request in this step
MicFails(c) ==
  conns[c].pc = "getUserMedia" /\ conns'[c].pc \notin {"getUserMedia", "handshake"}

\* C14: when the microphone request of a connect attempt fails, exactly one
\* error entry is logged and nothing else, no session is opened, connected
\* is left as it was (false, when this is the only attempt), no new attempt is
\* started, and the failed attempt stays failed.
C14_MicFailure ==
  [][\A c \in DOMAIN conns :
        /\ MicFails(c)
           => /\ logs' = AddLog(logs, "error")
              /\ conns'[c].pc = "failed" /\ conns'[c].sess = "none"
              /\ connected' = connected
              /\ Len(conns) = 1 => ~connected'
              /\ Len(conns') = Len(conns)
              /\ refVars' = refVars
        /\ conns[c].pc = "failed"
           => conns'[c].pc = "failed" /\ conns'[c].sess = conns[c].sess]_vars

\* the microphone request failed: the attempt never got a stream, and the two
\* log entries are the one of the click and the one of the failure
C14_Witness ==
  /\ Len(conns) = 1
  /\ conns[1].pc = "failed"
  /\ streamRef = NoRef
  /\ logs["error"] = 1 /\ logs["system"] = 1
  /\ ~connected /\ sessionRef = NoRef

\* the slot i plays to its end in this step
Completes(i) == sources[i].st = "scheduled" /\ sources'[i].st = "ended"

\* C15: a slot that completes leaves the active-slot set, and its completion
\* turns isSpeaking off only when no slot is left active and the output clock
\* has reached the marker.
C15_LastSlotOnly ==
  [][\A i \in DOMAIN sources :
        Completes(i)
        => /\ i \notin Range(audioSourcesRef')
           /\ isSpeaking /\ ~isSpeaking'
              => /\ audioSourcesRef' = <<>>
                 /\ Active' = {}
                 /\ CurrentTime(audioContextRef) >= nextStartTimeRef]_vars

\* C16: while the active-slot set holds a slot, isSpeaking is true.
C16_SpeakingWhileActive ==
  audioSourcesRef # <<>> => isSpeaking

\* the set_reminder call k is carried out in this step
Reminds(k) ==
  /\ toolCalls'[k].name = "set_reminder"
  /\ toolCalls'[k].status = "returned"
  /\ k \in DOMAIN toolCalls => toolCalls[k].status # "returned"

\* the responses to call k that exist once the step is over
Answers(k) ==
  { r \in DOMAIN toolResponses' : toolResponses'[r].id = toolCalls'[k].id }

\* C18: a set_reminder call with a task and no time appends one reminder with
\* that task, time 'Today' and completed false, leaves the reminders already
\* there as they were, and is answered with a result that names the task as
\* stored.
C18_ReminderStored ==
  [][\A k \in DOMAIN toolCalls' :
        Reminds(k)
        => /\ reminders' = Append(reminders,
                 [task |-> ArgValues.task, time |-> "Today", completed |-> FALSE])
           /\ Cardinality(Answers(k)) = 1
           /\ \A r \in Answers(k) :
                 toolResponses'[r].result = <<"Memory stored", ArgValues.task>>]_vars

\* a second reminder was stored behind the first, each call answered
C18_Witness ==
  /\ Len(reminders) = 2
  /\ reminders[2] = [task |-> "buy milk", time |-> "Today", completed |-> FALSE]
  /\ \E r \in DOMAIN toolResponses :
        /\ toolResponses[r].id = CallId(2, 1)
        /\ toolResponses[r].name = "set_reminder"

LogCount(l) == l["info"] + l["action"] + l["error"] + l["system"]

\* a failure happens in this step: a connect attempt fails (microphone or
\* handshake), the transport of a session reports an error, a tool handler
\* throws, or a generate_image call settles without an image
Failure ==
  \/ \E c \in DOMAIN conns : Pending(c) /\ conns'[c].pc = "failed"
  \/ \E s \in DOMAIN conns : conns[s].sess = "open" /\ conns'[s].sess = "failing"
  \/ \E k \in DOMAIN toolCalls' :
        /\ toolCalls'[k].status = "threw"
        /\ k \in DOMAIN toolCalls => toolCalls[k].status # "threw"
  \/ \E k \in DOMAIN toolCalls : ImageFails(k)

\* C19: every failure appends at least one log entry.
C19_FailureLogged ==
  [][Failure => LogCount(logs') > LogCount(logs)]_vars

\* C17: the three frames of the scenario, enqueued at clock time t0, start at
\* t0, t0 + 1.0 s and t0 + 1.5 s; isSpeaking is true from the first frame until
\* t0 + 3.5 s and false once the third slot has completed.
C17_Scenario ==
  /\ handlers # <<>> /\ Len(sources) < Len(ScenarioFrames) => isSpeaking
  /\ Len(sources) = Len(ScenarioFrames)
     => LET t0 == sources[1].clock IN
        /\ sources[1].start = t0
        /\ sources[2].start = t0 + 10
        /\ sources[3].start = t0 + 15
        /\ CurrentTime(audioContextRef) < t0 + 35 => isSpeaking
        /\ sources[3].st = "ended" => ~isSpeaking

\* the third slot has just completed, 3.5 s after a t0 later than the start
\* of the output clock
C17_Witness ==
  /\ Len(sources) = 3
  /\ sources[3].st = "ended"
  /\ sources[1].clock > 0
  /\ CurrentTime(audioContextRef) = sources[1].clock + 35
  /\ ~isSpeaking

\* C20: a buffer of samples in [-1, 1] that was encoded and decoded again has
\* the number of samples it had, each within one 16-bit level of the original.
C20_RoundTrip ==
  /\ codec.pc \in {"received", "decoded"} => Len(codec.bytes) = 2 * Len(codec.samples)
  /\ codec.pc = "decoded"
     => /\ Len(codec.out) = Len(codec.samples)
        /\ \A i \in DOMAIN codec.samples :
              /\ codec.out[i] - codec.samples[i] <= SubSteps
              /\ codec.samples[i] - codec.out[i] <= SubSteps

\* a buffer that holds the sample 1.0, which has no 16-bit level of its own,
\* and a negative sample off the levels has been through the round trip
C20_Witness ==
  /\ codec.pc = "decoded"
  /\ codec.samples = <<One, -SubSteps - 1>>
  /\ codec.out = <<One - SubSteps, -SubSteps>>

\* ---- third group of claims
\* a buffer is enqueued in this step
Enqueues == Len(sources') = Len(sources) + 1

\* C21: each enqueue starts its buffer at the larger of the output clock and
\* the marker, and then sets the marker to that start plus the length of the
\* buffer.
C21_EnqueueRule ==
  [][Enqueues
     => LET new == sources'[Len(sources')]
            clock == CurrentTime(audioContextRef)
        IN /\ new.start >= clock /\ new.start >= nextStartTimeRef
           /\ new.start = clock \/ new.start = nextStartTimeRef
           /\ nextStartTimeRef' = new.start + new.dur
           /\ new.st = "scheduled"]_vars

\* one buffer started at the clock, which was ahead of the marker, and a later
\* one at the marker, which was ahead of the clock
C21_Witness ==
  \E i, j \in DOMAIN sources :
     /\ i < j
     /\ sources[i].clock > 0 /\ sources[i].start = sources[i].clock
     /\ sources[i].dur > 0
     /\ sources[j].start > sources[j].clock
     /\ nextStartTimeRef = sources[j].start + sources[j].dur

\* an inbound message flagged interrupted is handled in this step
Interrupts == marks'.interruptMsg # marks.interruptMsg

\* the state is the one an interrupt at the present clock time leaves
JustInterrupted ==
  /\ marks.interruptMsg = Len(handlers)
  /\ audioSourcesRef = <<>>
  /\ ~isSpeaking
  /\ audioContextRef # NoRef => nextStartTimeRef = CurrentTime(audioContextRef)

\* C22: an interrupt with nothing playing runs to its end, leaves the
\* active-slot set empty, isSpeaking false and every source as it was, and
\* puts the marker at the clock; a second interrupt right after the first, at
\* the same clock time, changes nothing the first one left.
C22_InterruptIdempotent ==
  [][Interrupts /\ audioSourcesRef = <<>>
     => /\ handlers'[Len(handlers')] = Done
        /\ audioSourcesRef' = <<>>
        /\ ~isSpeaking'
        /\ sources' = sources
        /\ audioContextRef # NoRef => nextStartTimeRef' = CurrentTime(audioContextRef)
        /\ JustInterrupted => uiVars' = uiVars /\ refVars' = refVars]_vars

\* two interrupts in a row, the clock past its start: the second found the
\* set empty
C22_Witness ==
  /\ marks.interruptMsg = 2
  /\ \E k \in DOMAIN toolCalls : toolCalls[k].msg = 1 /\ toolCalls[k].status = "dropped"
  /\ audioSourcesRef = <<>> /\ ~isSpeaking
  /\ sources = <<>>
  /\ nextStartTimeRef > 0

\* a buffer of no length is enqueued in this step
EnqueuesEmpty == Enqueues /\ sources'[Len(sources')].dur = 0

\* C23 as stated: enqueuing a zero-duration buffer leaves the marker as it
\* was, the slot joins the active-slot set and leaves it when it completes.
C23_ZeroKeepsMarker ==
  [][/\ EnqueuesEmpty
        => /\ nextStartTimeRef' = nextStartTimeRef
           /\ Len(sources') \in Range(audioSourcesRef')
     /\ \A i \in DOMAIN sources :
           Completes(i) /\ sources[i].dur = 0 => i \notin Range(audioSourcesRef')]_vars

\* C23, amended: enqueuing a zero-duration buffer sets the marker to the start
\* of the buffer, the larger of clock and marker: the marker stays when it is
\* not behind the clock and moves up to the clock when it is; the slot joins
\* the active-slot set and leaves it when it completes.
C23_ZeroMarkerIsStart ==
  [][/\ EnqueuesEmpty
        => /\ nextStartTimeRef' = sources'[Len(sources')].start
           /\ nextStartTimeRef >= CurrentTime(audioContextRef)
                => nextStartTimeRef' = nextStartTimeRef
           /\ nextStartTimeRef < CurrentTime(audioContextRef)
                => nextStartTimeRef' = CurrentTime(audioContextRef)
           /\ Len(sources') \in Range(audioSourcesRef')
     /\ \A i \in DOMAIN sources :
           Completes(i) /\ sources[i].dur = 0 => i \notin Range(audioSourcesRef')]_vars

\* a zero-duration buffer was enqueued with the clock ahead of the marker,
\* moved the marker up to the clock, has completed and has left the set
C23_Witness ==
  \E i \in DOMAIN sources :
     /\ sources[i].dur = 0
     /\ sources[i].clock > 0
     /\ sources[i].start = sources[i].clock
     /\ nextStartTimeRef = sources[i].start
     /\ sources[i].st = "ended"
     /\ i \notin Range(audioSourcesRef)
     /\ Len(sources) = 1

\* stopAllAudio runs in this step: for an interrupt, for the close of a
\* session or for a disconnect
StopsAll ==
  \/ Interrupts
  \/ \E c \in DOMAIN conns : conns[c].sess # "closed" /\ conns'[c].sess = "closed"
  \/ connected /\ ~connected' /\ logs'["system"] # logs["system"]

\* C24 as stated: no step sets the marker to a value lower than the one it had.
C24_MarkerMonotone ==
  [][nextStartTimeRef' >= nextStartTimeRef]_vars

\* C24, amended: an enqueue, a slot completion and a tool call never lower the
\* marker; it is lowered only where stopAllAudio runs (interrupt, close,
\* disconnect), which puts it at the present time of the output clock.
C24_LoweredOnlyByStop ==
  [][/\ nextStartTimeRef' < nextStartTimeRef
        => /\ StopsAll
           /\ nextStartTimeRef' = CurrentTime(audioContextRef)
           /\ audioSourcesRef' = <<>>
     /\ Enqueues => nextStartTimeRef' >= nextStartTimeRef
     /\ (\E i \in DOMAIN sources : Completes(i)) => nextStartTimeRef' = nextStartTimeRef
     /\ toolResponses' # toolResponses => nextStartTimeRef' = nextStartTimeRef]_vars

\* an interrupt on an open session has stopped a slot that was scheduled
\* ahead and has taken the marker back below the end of that slot
C24_Witness ==
  \E i \in DOMAIN sources :
     /\ sources[i].st = "stopped"
     /\ conns[sources[i].ctx].sess = "open"
     /\ marks.interruptMsg > sources[i].msg
     /\ nextStartTimeRef < sources[i].start + sources[i].dur

\* C25: an outbound frame is sent only on a session whose handshake has
\* succeeded, and the frames of a session go out in the order of their
\* capture windows, one frame for each window.
C25_FramesInOrder ==
  \A k \in DOMAIN outbound :
     LET c == outbound[k].sess IN
     /\ conns[c].pc = "done"
     /\ conns[c].sess # "none"
     /\ outbound[k].win =
          Cardinality({ j \in 1..k : outbound[j].sess = c })

\* three windows of one session went out, the first of them delivered
C25_Witness ==
  /\ Len(outbound) = 3
  /\ \A k \in 1..3 : outbound[k].sess = 1 /\ outbound[k].win = k
  /\ outbound[1].delivered

\* the output context of connect c was made after a disconnect had closed
\* the context of every connect before it
AfterDisconnect(c) ==
  /\ c > 1
  /\ \A b \in 1..(c - 1) :
        conns[b].closedAt >= 0 /\ conns[b].closedAt <= conns[c].origin

\* C26: the first buffer enqueued in a session that was connected after a
\* disconnect starts at the time the new output clock shows at the enqueue,
\* whatever marker the session before has left.
C26_FreshSessionStartsNow ==
  [][\A m \in DOMAIN handlers :
        /\ handlers[m].pc = "decode" /\ handlers'[m] = Done
        /\ Enqueues
        /\ handlers[m].sess = audioContextRef
        /\ AfterDisconnect(audioContextRef)
        /\ marks.pendingAtDisc = {}
        /\ \A j \in DOMAIN sources : sources[j].ctx # audioContextRef
        => sources'[Len(sources')].start = CurrentTime(audioContextRef)]_vars

\* C27: isSpeaking is true only while connected is.
C27_SpeakingOnlyConnected ==
  isSpeaking => connected

\* C28: a message flagged interrupted is handled as an interrupt and nothing
\* else: its tool calls are not dispatched and not answered, its reference
\* metadata is not forwarded, its audio is not decoded or enqueued.
C28_InterruptOnly ==
  [][\A s \in DOMAIN conns : \A msg \in Messages :
        msg.interrupted /\ OnMessage(s, msg)
        => /\ handlers'[Len(handlers')] = Done
           /\ audioSourcesRef' = <<>> /\ ~isSpeaking'
           /\ Len(sources') = Len(sources)
           /\ toolResponses' = toolResponses
           /\ searchResults' = searchResults
           /\ logs' = logs /\ reminders' = reminders /\ phoneState' = phoneState
           /\ \A k \in DOMAIN toolCalls' :
                 k \notin DOMAIN toolCalls => ~Dispatched(toolCalls'[k])]_vars

\* an interrupted message that carried a set_reminder call, reference metadata
\* and audio was handled: the call is on record as not dispatched, nothing was
\* stored, forwarded or enqueued
C28_Witness ==
  /\ marks.interruptMsg = 1
  /\ \E k \in DOMAIN toolCalls :
        toolCalls[k].msg = 1 /\ toolCalls[k].name = "set_reminder"
        /\ toolCalls[k].status = "dropped"
  /\ reminders = <<>> /\ ~searchResults /\ sources = <<>> /\ toolResponses = <<>>
  /\ Len(handlers) = 1

\* C29: when the handshake of a connect attempt is rejected, the microphone
\* stream the attempt acquired is released and both its audio contexts are
\* closed.
C29_FailedHandshakeReleases ==
  [][\A c \in DOMAIN conns :
        conns[c].pc = "handshake" /\ conns'[c].pc = "failed"
        => /\ conns'[c].streamStopped
           /\ conns'[c].closedAt >= 0
           /\ conns'[c].inClosed]_vars

\* a tool response is sent in this step on a session that disconnect has
\* closed
SendsAfterDisconnect ==
  /\ Len(toolResponses') > Len(toolResponses)
  /\ \E r \in DOMAIN toolResponses' :
        /\ r > Len(toolResponses)
        /\ LET via == toolResponses'[r].via IN
           \/ conns[via].sess = "closing"
           \/ conns[via].sess = "closed" /\ via \in marks.procsAtDisc

\* C30: no tool response is sent on a session that disconnect has closed.
C30_NoResponseAfterDisconnect ==
  [][~SendsAfterDisconnect]_vars

====
